---- MODULE Spec2Model ----
(***************************************************************************)
(* TextWeb agent-tool adapters: tools/crewai.py and tools/langchain.py.    *)
(*                                                                         *)
(* Text is modelled by TLA+ strings built with \o, so that two outputs are *)
(* byte-identical exactly when the strings are equal.  A JSON object is a  *)
(* function whose domain is the set of keys that are present; a JSON       *)
(* object that keeps its insertion order (the elements mapping) is a       *)
(* sequence of <<key, value>> pairs.  An optional value is a sequence of   *)
(* length 0 or 1.  A base URL is a sequence of chunks in which every "/"   *)
(* that may be stripped from the right end is a chunk of its own.          *)
(***************************************************************************)
EXTENDS Integers, Sequences, FiniteSets, TLC

\* ---------------------------------------------------------------- bounds
MaxElems == 2
MaxInst == 2

\* ------------------------------------------------------- python helpers
\* the empty dict {}
EmptyDict == [k \in {} |-> 0]

\* dict.get(k, default)
Get(d, k, default) == IF k \in DOMAIN d THEN d[k] ELSE default

\* the dict d limited to the keys of S
Restrict(d, S) == [k \in (DOMAIN d) \cap S |-> d[k]]

\* sep.join(lines)
RECURSIVE Join(_, _)
Join(lines, sep) ==
    IF lines = <<>> THEN ""
    ELSE IF Len(lines) = 1 THEN lines[1]
    ELSE lines[1] \o sep \o Join(Tail(lines), sep)

\* "".join(chunks)
RECURSIVE Concat(_)
Concat(chunks) == IF chunks = <<>> THEN "" ELSE chunks[1] \o Concat(Tail(chunks))

\* str.rstrip("/") on a chunked string
RECURSIVE rstrip(_)
rstrip(s) ==
    IF s # <<>> /\ s[Len(s)] = "/" THEN rstrip(SubSeq(s, 1, Len(s) - 1)) ELSE s

\* ------------------------------------------------------------ constants
DEFAULT_BASE_URL == <<"http://localhost:3000">>

\* the module-wide requests.Session() of crewai.py
_session == 0

\* the local state every crewai tool works with: the two module globals
crewai_globals == [base_url |-> DEFAULT_BASE_URL, session |-> _session]

Tools == {"navigate", "click", "type", "select", "scroll", "snapshot"}

\* --------------------------------------------- the HTTP exchange (requests)
\* A request as it leaves session.get / session.post; url is the chunked
\* string f"{base_url}{endpoint}", its last chunk being the endpoint.
Request(method, url, body, session) ==
    [method |-> method, url |-> url, body |-> body, session |-> session]

\* What the network and the service answer to one request.
NoResp == [kind |-> "none", status |-> 0, json |-> FALSE, body |-> <<>>]
NetFail(kind) == [kind |-> kind, status |-> 0, json |-> FALSE, body |-> <<>>]
Http(status, json, body) ==
    [kind |-> "http", status |-> status, json |-> json, body |-> body]

\* The result of one invocation: the requests it issued, the exception it
\* raised ("" for none), the text it returned (<<>> for none) and the local
\* state of the adapter (base URL, session object) after it.
Raised(self, requests, error) ==
    [requests |-> requests, error |-> error, text |-> <<>>, self |-> self]
Returned(self, requests, text) ==
    [requests |-> requests, error |-> "", text |-> <<text>>, self |-> self]

\* session.get/post(..., timeout=30) followed by resp.raise_for_status() and
\* resp.json(): the exception raised, "" when the parsed body is returned.
\* requests raises ConnectionError / Timeout when no response is obtained;
\* raise_for_status raises HTTPError for 400 <= status < 600 only;
\* json() raises JSONDecodeError when the body is not JSON.
ResponseError(resp) ==
    IF resp.kind # "http" THEN resp.kind
    ELSE IF 400 <= resp.status /\ resp.status < 600 THEN "HTTPError"
    ELSE IF ~resp.json THEN "JSONDecodeError"
    ELSE ""

\* ------------------------------------------------------------ crewai.py
\* the generator of refs: one line per (ref, el) in elements.items()
crewai_ref_lines(elements) ==
    [i \in 1..Len(elements) |->
        "[" \o elements[i][1] \o "] "
            \o Get(elements[i][2], "semantic", "?") \o ": "
            \o Get(elements[i][2], "text", "(no text)")]

\* the formatting half of _call
crewai_format(result) ==
    LET view == Get(result, "view", "")
        elements == Get(result, "elements", <<>>)
        meta == Get(result, "meta", EmptyDict)
        refs == Join(crewai_ref_lines(elements), "\n")
    IN  "URL: " \o Get(meta, "url", "unknown") \o "\nTitle: "
            \o Get(meta, "title", "unknown") \o "\n\n" \o view
            \o "\n\nInteractive elements:\n" \o refs

\* _call(endpoint, data, method, base_url), resp being the answer to the
\* request it issues
_call(endpoint, data, method, base_url, resp) ==
    LET url == rstrip(base_url) \o <<endpoint>>
        req == IF method = "GET"
               THEN Request("GET", url, <<>>, _session)
               ELSE Request("POST", url,
                            <<IF data = <<>> THEN EmptyDict ELSE data[1]>>,
                            _session)
        err == ResponseError(resp)
    IN  IF err # "" THEN Raised(crewai_globals, <<req>>, err)
        ELSE Returned(crewai_globals, <<req>>, crewai_format(resp.body[1]))

\* --------------------------------------------- argument binding (python)
\* Calling a python function with keyword arguments args: a TypeError when a
\* parameter without default is missing or a keyword is unknown, else the
\* arguments completed with the defaults.
PyBind(required, defaults, args) ==
    IF required \subseteq DOMAIN args
          /\ DOMAIN args \subseteq (required \cup DOMAIN defaults)
    THEN [error |-> "", args |-> args @@ defaults]
    ELSE [error |-> "TypeError", args |-> EmptyDict]

\* Validating args against a pydantic model: a ValidationError when a field
\* without default is missing, else the fields of the model, completed with
\* the defaults (unknown keys are ignored).
Validate(schema, args) ==
    IF schema.required \subseteq DOMAIN args
    THEN [error |-> "",
          args |-> Restrict(args, schema.required \cup DOMAIN schema.defaults)
                      @@ schema.defaults]
    ELSE [error |-> "ValidationError", args |-> EmptyDict]

Schema(required, defaults) == [required |-> required, defaults |-> defaults]

\* NavigateSchema .. ScrollSchema; TextWebSnapshotTool declares no args_schema
crewai_args_schema(tool) ==
    CASE tool = "navigate" -> Schema({"url"}, EmptyDict)
      [] tool = "click"    -> Schema({"ref"}, EmptyDict)
      [] tool = "type"     -> Schema({"ref", "text"}, EmptyDict)
      [] tool = "select"   -> Schema({"ref", "value"}, EmptyDict)
      [] tool = "scroll"   -> Schema({"direction"}, EmptyDict)
      [] tool = "snapshot" -> Schema({}, EmptyDict)

\* the parameters of each tool's _run(self, ...): none has a default
crewai_run_params(tool) ==
    CASE tool = "navigate" -> {"url"}
      [] tool = "click"    -> {"ref"}
      [] tool = "type"     -> {"ref", "text"}
      [] tool = "select"   -> {"ref", "value"}
      [] tool = "scroll"   -> {"direction"}
      [] tool = "snapshot" -> {}

\* TextWeb*Tool._run: the body of each tool, a being the bound arguments
crewai_run(tool, a, resp) ==
    CASE tool = "navigate" ->
            _call("/navigate", <<[url |-> a.url]>>, "POST", DEFAULT_BASE_URL, resp)
      [] tool = "click" ->
            _call("/click", <<[ref |-> a.ref]>>, "POST", DEFAULT_BASE_URL, resp)
      [] tool = "type" ->
            _call("/type", <<[ref |-> a.ref, text |-> a.text]>>, "POST",
                  DEFAULT_BASE_URL, resp)
      [] tool = "select" ->
            _call("/select", <<[ref |-> a.ref, value |-> a.value]>>, "POST",
                  DEFAULT_BASE_URL, resp)
      [] tool = "scroll" ->
            _call("/scroll", <<[direction |-> a.direction]>>, "POST",
                  DEFAULT_BASE_URL, resp)
      [] tool = "snapshot" ->
            _call("/snapshot", <<>>, "GET", DEFAULT_BASE_URL, resp)

\* One invocation of a crewai tool.  entry = "tool": through the framework,
\* which validates the arguments against args_schema and calls _run with the
\* validated ones; entry = "direct": _run(**args) called as a python method.
crewai_invoke(tool, entry, args, resp) ==
    LET v == IF entry = "tool" THEN Validate(crewai_args_schema(tool), args)
             ELSE [error |-> "", args |-> args]
        b == PyBind(crewai_run_params(tool), EmptyDict, v.args)
    IN  IF v.error # "" THEN Raised(crewai_globals, <<>>, v.error)
        ELSE IF b.error # "" THEN Raised(crewai_globals, <<>>, b.error)
        ELSE crewai_run(tool, b.args, resp)

\* --------------------------------------------------------- langchain.py
\* TextWebClient.__init__(base_url), session being the new requests.Session()
TextWebClient(base_url, session) ==
    [base_url |-> rstrip(base_url), session |-> session]

\* the generator of refs in _format
langchain_ref_lines(elements) ==
    [i \in 1..Len(elements) |->
        "[" \o elements[i][1] \o "] "
            \o Get(elements[i][2], "semantic", "?") \o ": "
            \o Get(elements[i][2], "text", "(no text)")]

\* TextWebClient._format
_format(result) ==
    LET view == Get(result, "view", "")
        elements == Get(result, "elements", <<>>)
        meta == Get(result, "meta", EmptyDict)
        refs == Join(langchain_ref_lines(elements), "\n")
    IN  "URL: " \o Get(meta, "url", "unknown") \o "\nTitle: "
            \o Get(meta, "title", "unknown") \o "\nRefs: "
            \o ToString(Get(meta, "totalRefs", 0)) \o "\n\n" \o view
            \o "\n\nInteractive elements:\n" \o refs

\* _post that replaces the session by a new one when the call fails
_post_reconnect(self, endpoint, data, resp) ==
    [requests |-> <<Request("POST", self.base_url \o <<endpoint>>,
                            <<data>>, self.session)>>,
     error |-> ResponseError(resp), result |-> resp.body,
     self |-> IF ResponseError(resp) # ""
              THEN [self EXCEPT !.session = self.session + MaxInst]
              ELSE self]

\* TextWebClient._post: the request issued, the exception raised and the
\* parsed body
_post(self, endpoint, data, resp) ==
    [requests |-> <<Request("POST", self.base_url \o <<endpoint>>,
                            <<data>>, self.session)>>,
     error |-> ResponseError(resp), result |-> resp.body, self |-> self]

\* TextWebClient._get
_get(self, endpoint, resp) ==
    [requests |-> <<Request("GET", self.base_url \o <<endpoint>>,
                            <<>>, self.session)>>,
     error |-> ResponseError(resp), result |-> resp.body, self |-> self]

\* "result = self._post(...); return self._format(result)": an exception of
\* _post / _get propagates, else the formatted text is returned
FormatResult(r) ==
    IF r.error # "" THEN Raised(r.self, r.requests, r.error)
    ELSE Returned(r.self, r.requests, _format(r.result[1]))

navigate(self, a, resp) == FormatResult(_post(self, "/navigate", [url |-> a.url], resp))

click(self, a, resp) == FormatResult(_post(self, "/click", [ref |-> a.ref], resp))

type_text(self, a, resp) ==
    FormatResult(_post(self, "/type", [ref |-> a.ref, text |-> a.text], resp))

select(self, a, resp) ==
    FormatResult(_post(self, "/select", [ref |-> a.ref, value |-> a.value], resp))

scroll(self, a, resp) ==
    FormatResult(_post(self, "/scroll",
                       [direction |-> a.direction, amount |-> a.amount], resp))

\* snapshot that posts instead of getting
snapshot_by_post(self, resp) == FormatResult(_post(self, "/snapshot", EmptyDict, resp))

snapshot(self, resp) == FormatResult(_get(self, "/snapshot", resp))

\* the parameters of the TextWebClient methods: those without default and
\* the defaults (scroll(self, direction="down", amount=1))
langchain_method_params(tool) ==
    CASE tool = "navigate" -> Schema({"url"}, EmptyDict)
      [] tool = "click"    -> Schema({"ref"}, EmptyDict)
      [] tool = "type"     -> Schema({"ref", "text"}, EmptyDict)
      [] tool = "select"   -> Schema({"ref", "value"}, EmptyDict)
      [] tool = "scroll"   -> Schema({}, [direction |-> "down", amount |-> 1])
      [] tool = "snapshot" -> Schema({}, EmptyDict)

\* NavigateInput .. ScrollInput; the textweb_snapshot Tool has no args_schema
langchain_args_schema(tool) ==
    CASE tool = "navigate" -> Schema({"url"}, EmptyDict)
      [] tool = "click"    -> Schema({"ref"}, EmptyDict)
      [] tool = "type"     -> Schema({"ref", "text"}, EmptyDict)
      [] tool = "select"   -> Schema({"ref", "value"}, EmptyDict)
      [] tool = "scroll"   -> Schema({"direction"}, [amount |-> 1])
      [] tool = "snapshot" -> Schema({}, EmptyDict)

\* the parameters of the lambdas of get_textweb_tools
\* (lambda direction, amount=1: client.scroll(direction, amount))
langchain_func_params(tool) ==
    CASE tool = "navigate" -> Schema({"url"}, EmptyDict)
      [] tool = "click"    -> Schema({"ref"}, EmptyDict)
      [] tool = "type"     -> Schema({"ref", "text"}, EmptyDict)
      [] tool = "select"   -> Schema({"ref", "value"}, EmptyDict)
      [] tool = "scroll"   -> Schema({"direction"}, [amount |-> 1])
      [] tool = "snapshot" -> Schema({}, EmptyDict)

\* the TextWebClient method behind each tool, a being the bound arguments
langchain_method(self, tool, a, resp) ==
    CASE tool = "navigate" -> navigate(self, a, resp)
      [] tool = "click"    -> click(self, a, resp)
      [] tool = "type"     -> type_text(self, a, resp)
      [] tool = "select"   -> select(self, a, resp)
      [] tool = "scroll"   -> scroll(self, a, resp)
      [] tool = "snapshot" -> snapshot(self, resp)

\* One invocation of a langchain tool of the client self.  entry = "tool":
\* through the framework, which validates the arguments against args_schema
\* and calls the tool's lambda, which calls the client's method;
\* entry = "direct": the TextWebClient method called with **args.
langchain_invoke(self, tool, entry, args, resp) ==
    LET v == IF entry = "tool" THEN Validate(langchain_args_schema(tool), args)
             ELSE [error |-> "", args |-> args]
        f == IF entry = "tool" /\ v.error = ""
             THEN PyBind(langchain_func_params(tool).required,
                         langchain_func_params(tool).defaults, v.args)
             ELSE v
        p == langchain_method_params(tool)
        b == PyBind(p.required, p.defaults, f.args)
    IN  IF v.error # "" THEN Raised(self, <<>>, v.error)
        ELSE IF f.error # "" THEN Raised(self, <<>>, f.error)
        ELSE IF b.error # "" THEN Raised(self, <<>>, b.error)
        ELSE langchain_method(self, tool, b.args, resp)

\* ------------------------------------------------ inputs of the model
\* base URLs a caller asks for
BaseUrlInputs == {DEFAULT_BASE_URL, <<"http://h:1", "/", "/">>}

\* keyword arguments a caller passes to each tool: complete, and with a
\* required argument missing
ArgInputs(tool) ==
    CASE tool = "navigate" -> {EmptyDict, [url |-> "http://x"]}
      [] tool = "click"    -> {EmptyDict, [ref |-> 1]}
      [] tool = "type"     -> {[ref |-> 1], [ref |-> 1, text |-> "hi"]}
      [] tool = "select"   -> {[ref |-> 1], [ref |-> 1, value |-> "b"]}
      [] tool = "scroll"   -> {EmptyDict, [direction |-> "down"],
                               [direction |-> "down", amount |-> 3]}
      [] tool = "snapshot" -> {EmptyDict}

\* the PageSnapshot of the example of the specification
ExampleSnapshot ==
    [view |-> "HOME",
     elements |-> << <<"1", [semantic |-> "button", text |-> "Login"]>> >>,
     meta |-> [url |-> "http://x", title |-> "X", totalRefs |-> 1]]

\* a PageSnapshot with fields missing
SparseSnapshot ==
    [view |-> "FORM",
     elements |-> << <<"2", [text |-> ""]>>, <<"1", [semantic |-> "input"]>> >>,
     meta |-> [title |-> "Y"]]

\* the page states of the remote service, each with the PageSnapshot the
\* service renders for it
Pages == <<ExampleSnapshot, SparseSnapshot>>

\* what can come back for one request: no response at all, or a response
\* with a status and a body that is JSON or not
Outcomes ==
    {[kind |-> "ConnectionError", status |-> 0, json |-> FALSE],
     [kind |-> "http", status |-> 200, json |-> TRUE],
     [kind |-> "http", status |-> 200, json |-> FALSE],
     [kind |-> "http", status |-> 300, json |-> TRUE],
     [kind |-> "http", status |-> 500, json |-> TRUE]}

\* the invocations of the life-cycle specification: every tool, through the
\* framework, with its arguments complete
CompleteArgs(tool) ==
    CASE tool = "navigate" -> [url |-> "http://x"]
      [] tool = "click"    -> [ref |-> 1]
      [] tool = "type"     -> [ref |-> 1, text |-> "hi"]
      [] tool = "select"   -> [ref |-> 1, value |-> "b"]
      [] tool = "scroll"   -> [direction |-> "down"]
      [] tool = "snapshot" -> EmptyDict

\* ---------------------------------------------------------------- state
VARIABLES
    tools,         \* the adapter instances: a crewai tool object, or the tools of one get_textweb_tools call
    open,          \* the requests.Session objects that exist and are not closed
    page,          \* the page state of the remote service
    last,          \* the most recent invocation and its result
    run,           \* the successful textweb_snapshot invocations in a row
    failed,        \* some invocation has raised
    result,        \* the mocked PageSnapshot response
    crewText,      \* what crewai's textweb_navigate returned for it
    lcText         \* what langchain's textweb_navigate returned for it

vars == <<tools, open, page, last, run, failed, result, crewText, lcText>>

InstIds == 1..MaxInst

NoTool == [kind |-> "none", cfg |-> <<>>, created |-> crewai_globals,
           self |-> crewai_globals, alive |-> FALSE]

\* TextWeb*Tool(): a crewai tool object, constructed by a caller who wants
\* base URL b; the classes declare no base_url field and _run passes none
\* to _call, so the tool works with the module globals
CrewTool(b) ==
    [kind |-> "crewai", cfg |-> b, created |-> crewai_globals,
     self |-> crewai_globals, alive |-> TRUE]

\* the tools of get_textweb_tools(b): they share one TextWebClient, whose
\* requests.Session() is the new object sid
LangchainTools(b, sid) ==
    [kind |-> "langchain", cfg |-> b, created |-> TextWebClient(b, sid),
     self |-> TextWebClient(b, sid), alive |-> TRUE]

NoCall == [inst |-> 0, tool |-> "none", entry |-> "none", args |-> EmptyDict,
           resp |-> NoResp, requests |-> <<>>, error |-> "", text |-> <<>>]

NoRun == [inst |-> 0, count |-> 0, text |-> <<>>]

mock == <<result, crewText, lcText>>

\* after the import of the two modules: the module-wide session of
\* crewai.py exists, no adapter does
Init ==
    /\ tools = [i \in InstIds |-> NoTool]
    /\ open = {_session}
    /\ page = 1
    /\ last = NoCall
    /\ run = NoRun
    /\ failed = FALSE
    /\ result = ExampleSnapshot
    /\ crewText = <<>>
    /\ lcText = <<>>

NewCrewTool(i, b) ==
    /\ tools[i].kind = "none"
    /\ tools' = [tools EXCEPT ![i] = CrewTool(b)]
    /\ UNCHANGED <<open, page, last, run, failed, mock>>

get_textweb_tools(i, b) ==
    /\ tools[i].kind = "none"
    /\ tools' = [tools EXCEPT ![i] = LangchainTools(b, i)]
    /\ open' = open \cup {i}
    /\ UNCHANGED <<page, last, run, failed, mock>>

\* The adapter is torn down: its tools are dropped by the caller.  Neither
\* file calls Session.close(), defines __del__ / __exit__ or any other
\* teardown code, so no session leaves the set of open ones.
Teardown(i) ==
    /\ tools[i].alive
    /\ tools' = [tools EXCEPT ![i].alive = FALSE]
    /\ UNCHANGED <<open, page, last, run, failed, mock>>

\* one invocation by the adapter t
invoke(t, tool, entry, args, resp) ==
    IF t.kind = "crewai" THEN crewai_invoke(tool, entry, args, resp)
    ELSE langchain_invoke(t.self, tool, entry, args, resp)

\* the invocation returns or raises: the state it leaves
Complete(i, tool, entry, args, resp, np) ==
    LET r == invoke(tools[i], tool, entry, args, resp)
    IN  /\ page' = np
        /\ tools' = [tools EXCEPT ![i].self = r.self]
        /\ last' = [inst |-> i, tool |-> tool, entry |-> entry, args |-> args,
                    resp |-> resp, requests |-> r.requests,
                    error |-> r.error, text |-> r.text]
        /\ run' = IF tool = "snapshot" /\ r.text # <<>>
                  THEN IF run.inst = i
                       THEN [run EXCEPT !.count = 2]
                       ELSE [inst |-> i, count |-> 1, text |-> r.text]
                  ELSE NoRun
        /\ failed' = (failed \/ r.error # "")
        /\ UNCHANGED <<open, mock>>

\* One tool invocation, from the call to its return or exception.  When it
\* issues a request, the network and the service answer with some outcome
\* o; a POST that reached the service leaves the page in some state np, a
\* GET leaves it as it is; the body of a JSON answer is the PageSnapshot of
\* the page.
Invoke(i, tool, entry, args) ==
    /\ tools[i].alive
    /\ LET sent == invoke(tools[i], tool, entry, args, NoResp).requests
       IN  IF sent = <<>>
           THEN Complete(i, tool, entry, args, NoResp, page)
           ELSE \E o \in Outcomes :
                  IF o.kind # "http"
                  THEN Complete(i, tool, entry, args, NetFail(o.kind), page)
                  ELSE \E np \in (IF sent[1].method = "POST"
                                  THEN 1..Len(Pages) ELSE {page}) :
                         Complete(i, tool, entry, args,
                                  Http(o.status, o.json,
                                       IF o.json THEN <<Pages[np]>> ELSE <<>>),
                                  np)

\* ------------------------------------ the life cycle of the adapters
Next ==
    \/ \E i \in InstIds, b \in BaseUrlInputs : NewCrewTool(i, b)
    \/ \E i \in InstIds, b \in BaseUrlInputs : get_textweb_tools(i, b)
    \/ \E i \in InstIds : Teardown(i)
    \/ \E i \in InstIds, tool \in Tools : Invoke(i, tool, "tool", CompleteArgs(tool))

Spec == Init /\ [][Next]_vars

\* ------------------- the invocations of one adapter of each framework
InitCalls ==
    /\ \E b \in BaseUrlInputs :
          tools = [i \in InstIds |->
                      IF i = 1 THEN CrewTool(DEFAULT_BASE_URL)
                      ELSE IF i = 2 THEN LangchainTools(b, i) ELSE NoTool]
    /\ open = {_session, 2}
    /\ page = 1
    /\ last = NoCall
    /\ run = NoRun
    /\ failed = FALSE
    /\ result = ExampleSnapshot
    /\ crewText = <<>>
    /\ lcText = <<>>

NextCalls ==
    \E i \in InstIds, tool \in Tools, entry \in {"tool", "direct"} :
       \E args \in ArgInputs(tool) : Invoke(i, tool, entry, args)

SpecCalls == InitCalls /\ [][NextCalls]_vars

\* ------------------------- the normalizer on a mocked PageSnapshot response
Refs == {ToString(n) : n \in 1..MaxElems}

ElementDescriptors ==
    {Restrict([semantic |-> "button", text |-> t], K) :
        t \in {"", "Login"}, K \in SUBSET {"semantic", "text"}}

\* the elements mappings: at most MaxElems entries, in any order, no key twice
ElementMappings ==
    {e \in UNION {[1..n -> Refs \X ElementDescriptors] : n \in 0..MaxElems} :
        \A i, j \in 1..Len(e) : e[i][1] = e[j][1] => i = j}

Metas ==
    {Restrict([url |-> "http://x", title |-> "X", totalRefs |-> 1], K) :
        K \in SUBSET {"url", "title", "totalRefs"}}

\* the responses: every key of the PageSnapshot present or missing
Snapshots ==
    {Restrict([view |-> "HOME", elements |-> e, meta |-> m], K) :
        e \in ElementMappings, m \in Metas,
        K \in SUBSET {"view", "elements", "meta"}}

MockUrl == [url |-> "http://x"]

InitFormat ==
    /\ result \in Snapshots
    /\ crewText = <<>>
    /\ lcText = <<>>
    /\ tools = [i \in InstIds |->
                   IF i = 1 THEN CrewTool(DEFAULT_BASE_URL)
                   ELSE IF i = 2 THEN LangchainTools(DEFAULT_BASE_URL, i)
                   ELSE NoTool]
    /\ open = {_session, 2}
    /\ page = 1
    /\ last = NoCall
    /\ run = NoRun
    /\ failed = FALSE

\* crewai's textweb_navigate tool, the service answering 200 with result
CrewNavigate ==
    /\ crewText = <<>>
    /\ crewText' = invoke(tools[1], "navigate", "tool", MockUrl,
                          Http(200, TRUE, <<result>>)).text
    /\ UNCHANGED <<tools, open, page, last, run, failed, result, lcText>>

\* langchain's textweb_navigate tool, the service answering 200 with result
LangchainNavigate ==
    /\ lcText = <<>>
    /\ lcText' = invoke(tools[2], "navigate", "tool", MockUrl,
                        Http(200, TRUE, <<result>>)).text
    /\ UNCHANGED <<tools, open, page, last, run, failed, result, crewText>>

NextFormat == CrewNavigate \/ LangchainNavigate

SpecFormat == InitFormat /\ [][NextFormat]_vars

\* =================================================================== claims
\* the taxonomy of the specification, in terms of the exceptions raised
SchemaValidationError == {"ValidationError", "TypeError"}
RemoteServiceError == {"HTTPError", "JSONDecodeError"}
TransportError == {"ConnectionError", "Timeout"}

\* the required arguments of section 4.3
RequiredArgs(tool) ==
    CASE tool = "navigate" -> {"url"}
      [] tool = "click"    -> {"ref"}
      [] tool = "type"     -> {"ref", "text"}
      [] tool = "select"   -> {"ref", "value"}
      [] tool = "scroll"   -> {"direction"}
      [] tool = "snapshot" -> {}

\* the interface table of section 6
TablePath(tool) ==
    CASE tool = "navigate" -> "/navigate"
      [] tool = "click"    -> "/click"
      [] tool = "type"     -> "/type"
      [] tool = "select"   -> "/select"
      [] tool = "scroll"   -> "/scroll"
      [] tool = "snapshot" -> "/snapshot"

TableMethod(tool) == IF tool = "snapshot" THEN "GET" ELSE "POST"

TableBody(tool, args) ==
    CASE tool = "navigate" -> <<[url |-> args.url]>>
      [] tool = "click"    -> <<[ref |-> args.ref]>>
      [] tool = "type"     -> <<[ref |-> args.ref, text |-> args.text]>>
      [] tool = "select"   -> <<[ref |-> args.ref, value |-> args.value]>>
      [] tool = "scroll"   -> <<[direction |-> args.direction,
                                 amount |-> Get(args, "amount", 1)]>>
      [] tool = "snapshot" -> <<>>

\* C1: whenever both navigate tools have returned for the same URL and the
\* same response, the two texts are byte-identical.
C1_CrossFrameworkEquivalence ==
    (crewText # <<>> /\ lcText # <<>>) => crewText = lcText

\* C2: a tool invoked through its framework with the required arguments
\* issues exactly the request of the interface table: its method, its path
\* and its body, the scroll body carrying amount, 1 when omitted.
C2_RequestPerInterfaceTable ==
    (last.inst # 0 /\ last.entry = "tool"
        /\ RequiredArgs(last.tool) \subseteq DOMAIN last.args)
    => /\ Len(last.requests) = 1
       /\ last.requests[1].method = TableMethod(last.tool)
       /\ last.requests[1].url[Len(last.requests[1].url)] = TablePath(last.tool)
       /\ last.requests[1].body = TableBody(last.tool, last.args)

\* C3: for the example snapshot both navigate tools return exactly the
\* seven lines of the specification, without a trailing newline.
C3_ExampleText ==
    result = ExampleSnapshot
    => \A out \in {crewText, lcText} :
          out # <<>> =>
             out[1] = "URL: http://x\nTitle: X\n\nHOME\n\nInteractive elements:\n[1] button: Login"

\* the element line of the specification: "?" for a missing semantic,
\* "(no text)" for a missing or empty text
ClaimedLine(ref, el) ==
    "[" \o ref \o "] " \o Get(el, "semantic", "?") \o ": "
        \o (IF Get(el, "text", "") = "" THEN "(no text)" ELSE el.text)

\* the text of the specification in the layout of either adapter (withRefs:
\* the header has the Refs line)
ClaimedText(r, withRefs) ==
    LET elements == Get(r, "elements", <<>>)
        meta == Get(r, "meta", EmptyDict)
    IN  "URL: " \o Get(meta, "url", "unknown") \o "\nTitle: "
            \o Get(meta, "title", "unknown")
            \o (IF withRefs THEN "\nRefs: " \o ToString(Get(meta, "totalRefs", 0))
                ELSE "")
            \o "\n\n" \o Get(r, "view", "") \o "\n\nInteractive elements:\n"
            \o Join([i \in 1..Len(elements) |->
                        ClaimedLine(elements[i][1], elements[i][2])], "\n")

\* C4: in the output of both adapters a missing or empty text is rendered
\* as "(no text)", a missing semantic as "?", a missing url or title as
\* "unknown", and a field that is present and not empty as it is.
C4_MissingFieldDefaults ==
    /\ crewText # <<>> => crewText[1] = ClaimedText(result, FALSE)
    /\ lcText # <<>> => lcText[1] = ClaimedText(result, TRUE)

\* C5: an invocation with a required argument missing, through the
\* framework or by a direct call of the tool body, raises a
\* SchemaValidationError and issues no request.
C5_MissingArgumentRejected ==
    (last.inst # 0 /\ ~(RequiredArgs(last.tool) \subseteq DOMAIN last.args))
    => /\ last.error \in SchemaValidationError
       /\ last.requests = <<>>

\* C6: an invocation issues at most one request; when the answer has a
\* status outside 200..299 or a body that is not JSON, the invocation raises
\* a RemoteServiceError, returns no text and has issued exactly one request;
\* a network failure raises a TransportError, which is never a
\* RemoteServiceError.
C6_RemoteServiceError ==
    /\ Len(last.requests) <= 1
    /\ RemoteServiceError \cap TransportError = {}
    /\ last.resp.kind \notin {"none", "http"} => last.error \in TransportError
    /\ (last.resp.kind = "http"
          /\ (last.resp.status \notin 200..299 \/ ~last.resp.json))
       => /\ last.error \in RemoteServiceError
          /\ last.text = <<>>
          /\ Len(last.requests) = 1

\* C7: every request of an adapter instance configured with base URL B goes
\* to B without its trailing slashes, followed by the path of the action.
C7_BaseUrlRespected ==
    (last.inst # 0 /\ last.requests # <<>>)
    => Concat(last.requests[1].url)
          = Concat(rstrip(tools[last.inst].cfg)) \o TablePath(last.tool)

\* C8: no two adapter instances use the same session object, every request
\* of an instance travels on the session of that instance, and the session
\* of an instance that was torn down is not open any more.
C8_ConnectionLifecycle ==
    /\ \A i, j \in InstIds :
          (i # j /\ tools[i].kind # "none" /\ tools[j].kind # "none")
          => tools[i].self.session # tools[j].self.session
    /\ (last.inst # 0 /\ last.requests # <<>>)
          => last.requests[1].session = tools[last.inst].self.session
    /\ \A i \in InstIds :
          (tools[i].kind # "none" /\ ~tools[i].alive)
          => tools[i].self.session \notin open

\* C9: textweb_snapshot sends GET /snapshot without a body and nothing else,
\* and the second of two successful snapshot invocations of one adapter in
\* a row returns the text of the first.
C9_SnapshotIdempotent ==
    /\ last.tool = "snapshot"
          => /\ Len(last.requests) = 1
             /\ last.requests[1].method = "GET"
             /\ last.requests[1].url[Len(last.requests[1].url)] = "/snapshot"
             /\ last.requests[1].body = <<>>
    /\ run.count = 2 => (last.inst = run.inst /\ last.text = run.text)

\* two successful snapshot invocations of the langchain adapter in a row
C9_Witness ==
    /\ run.count = 2
    /\ tools[run.inst].kind = "langchain"
    /\ last.tool = "snapshot"
    /\ last.text # <<>>

====
